---- MODULE Spec2Model ----
(***************************************************************************)
(* The C-ABI boundary of the YAML/JSON bridge (rust/src/lib.rs) over the   *)
(* conversion core (rust/src/parser.rs).  Text is a sequence of bytes      *)
(* (0..255).  The YAML and JSON libraries the core delegates to are        *)
(* external: what they return for a text is an input of the call, drawn    *)
(* from the outcomes a library can give (a text without a 0 byte, or an    *)
(* error whose Display message is not empty).                              *)
(***************************************************************************)
EXTENDS Integers, Sequences, FiniteSets, TLC

VARIABLES
    get_LAST_ERROR,  \* the static LAST_ERROR declared inside get_last_error
    set_LAST_ERROR,  \* the static LAST_ERROR declared inside set_last_error
    live,            \* addresses of the CStrings handed out by into_raw
    owned,           \* caller's ledger: results received and not yet released
    lastWrite,       \* caller's ledger: argument of the latest set_last_error
    rodata,          \* the byte the build placed right after VERSION
    call             \* the latest call: its arguments and what it gave back

vars == <<get_LAST_ERROR, set_LAST_ERROR, live, owned, lastWrite, rodata, call>>

---------------------------------------------------------------------------
\* Bounds of the model.
MaxErrLen == 2       \* longest message given to set_last_error
MaxInputLen == 2     \* longest document given to a conversion
MaxMsgLen == 1       \* longest library error message
MaxRichLen == 3      \* longest error message of the payload specification
MaxCap == 3          \* largest capacity given to get_last_error
MaxLive == 2         \* heap addresses available to into_raw

---------------------------------------------------------------------------
\* Byte strings.

RECURSIVE SeqsUpTo(_, _)
SeqsUpTo(A, n) ==
    IF n = 0 THEN {<<>>}
    ELSE LET shorter == SeqsUpTo(A, n - 1)
         IN  shorter \cup {Append(s, a) : s \in shorter, a \in A}

Min(a, b) == IF a <= b THEN a ELSE b

Drop(s, k) == SubSeq(s, k + 1, Len(s))

IsCont(b) == b >= 128 /\ b <= 191

\* CStr::to_str succeeds exactly on well-formed UTF-8 (core::str::from_utf8).
RECURSIVE Utf8Ok(_)
Utf8Ok(s) ==
    IF s = <<>> THEN TRUE
    ELSE LET b == s[1] IN
         IF b < 128 THEN Utf8Ok(Drop(s, 1))
         ELSE IF b >= 194 /\ b <= 223
              THEN Len(s) >= 2 /\ IsCont(s[2]) /\ Utf8Ok(Drop(s, 2))
         ELSE IF b >= 224 /\ b <= 239
              THEN /\ Len(s) >= 3
                   /\ IsCont(s[2])
                   /\ (b = 224 => s[2] >= 160)
                   /\ (b = 237 => s[2] <= 159)
                   /\ IsCont(s[3])
                   /\ Utf8Ok(Drop(s, 3))
         ELSE IF b >= 240 /\ b <= 244
              THEN /\ Len(s) >= 4
                   /\ IsCont(s[2])
                   /\ (b = 240 => s[2] >= 144)
                   /\ (b = 244 => s[2] <= 143)
                   /\ IsCont(s[3])
                   /\ IsCont(s[4])
                   /\ Utf8Ok(Drop(s, 4))
         ELSE FALSE

\* Option<String>
None == <<"None">>
Some(s) == <<"Some", s>>

\* Result<String, Box<dyn Error>>; the error is kept as its Display text.
Ok(t) == <<"Ok", t>>
Err(m) == <<"Err", m>>

\* Pointers.  A *const c_char argument is null or points at the caller's
\* 0-terminated bytes, which are carried with it.
NULL == 0
NullPtr == <<"null">>
CStrPtr(s) == <<"cstr", s>>
Heap == 1 .. MaxLive
VersionAddr == MaxLive + 1     \* address of the static VERSION
InputAddr == MaxLive + 2       \* caller's input string
BufAddr == MaxLive + 3         \* caller's error buffer

\* CString::new fails on an interior 0 byte.
CStringNew(s) == IF \E i \in 1 .. Len(s) : s[i] = 0 THEN <<"Err">> ELSE Ok(s)

\* .unwrap_or_default(): the empty CString on failure.
unwrap_or_default(r) == IF r[1] = "Ok" THEN r[2] ELSE <<>>

---------------------------------------------------------------------------
\* parser.rs: the conversion core.  `lib` is what the YAML and JSON
\* libraries answer for the text of this call: lib.from_str is the parse
\* (Ok(value) or Err(message)), lib.to_string the serialisation
\* (Ok(bytes) or Err(message)).

\* Display text of the FromUtf8Error of String::from_utf8.
FromUtf8Msg == <<117, 116, 102, 56>>

parse_yaml_to_json(yaml_str, lib) ==
    IF lib.from_str[1] = "Err" THEN lib.from_str
    ELSE IF lib.to_string[1] = "Err" THEN lib.to_string
    ELSE Ok(lib.to_string[2])

encode_json_to_yaml(json_str, block_style, lib) ==
    IF lib.from_str[1] = "Err" THEN lib.from_str
    ELSE IF lib.to_string[1] = "Err" THEN lib.to_string
    ELSE IF block_style THEN Ok(lib.to_string[2])
    ELSE IF Utf8Ok(lib.to_string[2]) THEN Ok(lib.to_string[2])
    ELSE Err(FromUtf8Msg)

---------------------------------------------------------------------------
\* lib.rs: the boundary layer.

\* {"error":"
ErrPrefix == <<123, 34, 101, 114, 114, 111, 114, 34, 58, 34>>
\* "}
ErrSuffix == <<34, 125>>
\* {"error":"Invalid UTF-8 in input"}
InvalidUtf8Payload ==
    ErrPrefix
    \o <<73, 110, 118, 97, 108, 105, 100, 32, 85, 84, 70, 45, 56, 32,
         105, 110, 32, 105, 110, 112, 117, 116>>
    \o ErrSuffix

\* e.to_string().replace('\"', "\\\""): a backslash before every quote.
RECURSIVE replace(_)
replace(s) ==
    IF s = <<>> THEN <<>>
    ELSE (IF s[1] = 34 THEN <<92, 34>> ELSE <<s[1]>>) \o replace(Drop(s, 1))

\* format!("{{\"error\":\"{}\"}}", ...)
error_msg(e) == ErrPrefix \o replace(e) \o ErrSuffix

\* What an entry point hands back: kind is "null" (a null pointer),
\* "string" (a CString given to into_raw) or "panic" (an unwrap that failed);
\* core lists the texts given to the conversion core during the call.
Returned(kind, text, core, failed) ==
    [kind |-> kind, text |-> text, core |-> core, failed |-> failed]

InvalidUtf8Return ==
    LET c == CStringNew(InvalidUtf8Payload)
    IN  IF c[1] = "Ok" THEN Returned("string", c[2], <<>>, TRUE)
        ELSE Returned("panic", <<>>, <<>>, TRUE)

\* The match on the core's result: the text, or the error payload.
Converted(res, c_str) ==
    IF res[1] = "Ok"
    THEN Returned("string", unwrap_or_default(CStringNew(res[2])),
                  <<c_str>>, FALSE)
    ELSE Returned("string", unwrap_or_default(CStringNew(error_msg(res[2]))),
                  <<c_str>>, TRUE)

\* A yaml_parse that answers a failure of the core with a null pointer.
yaml_parse_null_on_error(input, lib) ==
    IF input = NullPtr THEN Returned("null", <<>>, <<>>, FALSE)
    ELSE LET c_str == input[2] IN
         IF ~Utf8Ok(c_str) THEN InvalidUtf8Return
         ELSE LET res == parse_yaml_to_json(c_str, lib) IN
              IF res[1] = "Ok" THEN Converted(res, c_str)
              ELSE Returned("null", <<>>, <<c_str>>, TRUE)

yaml_parse(input, lib) ==
    IF input = NullPtr THEN Returned("null", <<>>, <<>>, FALSE)
    ELSE LET c_str == input[2] IN
         IF ~Utf8Ok(c_str) THEN InvalidUtf8Return
         ELSE Converted(parse_yaml_to_json(c_str, lib), c_str)

\* A yaml_encode without the null check: null is read as the empty text.
yaml_encode_null_as_empty(input, block_style, lib) ==
    LET c_str == IF input = NullPtr THEN <<>> ELSE input[2] IN
    IF ~Utf8Ok(c_str) THEN InvalidUtf8Return
    ELSE Converted(encode_json_to_yaml(c_str, block_style # 0, lib), c_str)

\* A yaml_encode that converts the input lossily and goes on.
yaml_encode_lossy(input, block_style, lib) ==
    IF input = NullPtr THEN Returned("null", <<>>, <<>>, FALSE)
    ELSE LET c_str == input[2] IN
         Converted(encode_json_to_yaml(c_str, block_style # 0, lib), c_str)

yaml_encode(input, block_style, lib) ==
    IF input = NullPtr THEN Returned("null", <<>>, <<>>, FALSE)
    ELSE LET c_str == input[2] IN
         IF ~Utf8Ok(c_str) THEN InvalidUtf8Return
         ELSE Converted(encode_json_to_yaml(c_str, block_style # 0, lib), c_str)

\* A free_string that forgets the drop.
free_string_leak(ptr, allocations) == allocations

\* free_string: CString::from_raw(ptr) is dropped unless ptr is null.
free_string(ptr, allocations) ==
    IF ptr # NULL THEN allocations \ {ptr} ELSE allocations

\* The caller's memory at the buffer address: cells 0 .. MaxCap, of which the
\* first `size` are the buffer; Untouched marks a cell nothing wrote to.
Untouched == -1
FreshMem == [i \in 0 .. MaxCap |-> Untouched]

\* get_last_error over the static LAST_ERROR it declares.
get_last_error(buffer, size, LAST_ERROR, mem) ==
    IF buffer = NULL \/ size = 0 THEN [ret |-> 0, mem |-> mem]
    ELSE IF LAST_ERROR[1] = "Some"
    THEN LET error == LAST_ERROR[2]
             bytes_to_copy == Min(Len(error), size - 1)
         IN  [ret |-> bytes_to_copy,
              mem |-> [i \in DOMAIN mem |->
                         IF i < bytes_to_copy THEN error[i + 1]
                         ELSE IF i = bytes_to_copy THEN 0
                         ELSE mem[i]]]
    ELSE [ret |-> 0, mem |-> [mem EXCEPT ![0] = 0]]

\* A set_last_error that keeps undecodable bytes (a lossy conversion) instead
\* of clearing.
set_last_error_lossy(error) ==
    IF error = NullPtr THEN None ELSE Some(error[2])

\* set_last_error: the value stored in the static LAST_ERROR it declares.
set_last_error(error) ==
    IF error = NullPtr THEN None
    ELSE IF Utf8Ok(error[2]) THEN Some(error[2])
    ELSE None

\* The static VERSION: name, " ", version, " (", authors, ")".  The package
\* fields come from the manifest; concat! adds no 0 byte after the ")".
PkgName == <<121, 98>>
PkgVersion == <<48, 46, 49>>
PkgAuthors == <<120>>
VERSION == PkgName \o <<32>> \o PkgVersion \o <<32, 40>> \o PkgAuthors \o <<41>>

\* Offset (from 1) of the first 0 byte met when reading a C string from the
\* start of `bytes`, 0 when there is none.
RECURSIVE FirstNul(_, _)
FirstNul(bytes, i) ==
    IF i > Len(bytes) THEN 0
    ELSE IF bytes[i] = 0 THEN i
    ELSE FirstNul(bytes, i + 1)

\* yaml_bridge_version: CStr::from_bytes_with_nul_unchecked(VERSION.as_bytes())
\* takes the bytes as they are; a reader of the pointer goes on into the
\* memory after them.
yaml_bridge_version(after) ==
    [ret |-> VersionAddr, nul |-> FirstNul(VERSION \o <<after>>, 1)]

---------------------------------------------------------------------------
\* Inputs of the calls.

CStrings(alphabet, n) == {CStrPtr(s) : s \in SeqsUpTo(alphabet, n)}

\* Messages for set_last_error: 'a' and the two bytes of U+00E9, neither of
\* which is UTF-8 alone.
ErrorInputs == {NullPtr} \cup CStrings({97, 195, 169}, MaxErrLen)

\* Documents for the conversions: 'a' and a byte no UTF-8 text holds.
Documents == {NullPtr} \cup CStrings({97, 255}, MaxInputLen)

\* Library error messages: 'e' and '"'.
Messages == SeqsUpTo({101, 34}, MaxMsgLen) \ {<<>>}

\* Library error messages of the payload specification: a " \ LF
RichMessages == SeqsUpTo({97, 34, 92, 10}, MaxRichLen) \ {<<>>}

\* Texts a serialiser gives: 1 and the quoted U+00E9.
OutTexts == {<<49>>, <<34, 195, 169, 34>>}

\* The short lists, for the calls a specification is not about.
FewErrorInputs == {NullPtr, CStrPtr(<<97>>)}
FewDocuments == {NullPtr, CStrPtr(<<97>>), CStrPtr(<<255>>)}
FewMessages == {<<101>>}
FewTexts == {<<49>>}

\* What the libraries may answer for a text.
LibAnswers(msgs, texts) ==
    {[from_str |-> Err(m), to_string |-> Ok(<<49>>)] : m \in msgs}
    \cup {[from_str |-> Ok("Value"), to_string |-> Ok(t)] : t \in texts}
    \cup {[from_str |-> Ok("Value"), to_string |-> Err(m)] : m \in msgs}

\* The libraries answer for texts only: nothing else is ever given to them.
NoAnswer == [from_str |-> Ok("Value"), to_string |-> Ok(<<49>>)]
LibFor(input, msgs, texts) ==
    IF input # NullPtr /\ Utf8Ok(input[2]) THEN LibAnswers(msgs, texts)
    ELSE {NoAnswer}

---------------------------------------------------------------------------
\* The state machine: one action per exported function.

\* The record of a call: the function, its pointer argument, its integer
\* argument, the libraries' answer, the value returned, the bytes of the string
\* returned, the caller's buffer afterwards, the texts given to the conversion
\* core, and whether the call panicked.  For yaml_bridge_version, n is the
\* offset at which a reader of the returned pointer meets a 0 byte.
Call(op, arg, n, lib, ret, out, mem, core, panic) ==
    [op |-> op, arg |-> arg, n |-> n, lib |-> lib, ret |-> ret, out |-> out,
     mem |-> mem, core |-> core, panic |-> panic]

Init ==
    /\ get_LAST_ERROR = None
    /\ set_LAST_ERROR = None
    /\ live = {}
    /\ owned = {}
    /\ lastWrite = <<"never">>
    /\ rodata \in {0, 37}
    /\ call = Call("init", NullPtr, 0, NoAnswer, NULL, <<>>, FreshMem, <<>>, FALSE)

\* CString::into_raw: the allocation is at an address not in use.
into_raw(allocations) == Heap \ allocations

\* The caller's ledger after a call that returned `ret`.
Received(ret) == IF ret # NULL THEN owned \cup {ret} ELSE owned

\* The end of a conversion call whose body gave `r`.
Return(op, arg, n, lib, r) ==
    IF r.kind = "string"
    THEN \E h \in into_raw(live) :
            /\ live' = live \cup {h}
            /\ owned' = Received(h)
            /\ call' = Call(op, arg, n, lib, h, r.text, FreshMem, r.core, FALSE)
    ELSE /\ live' = live
         /\ owned' = Received(NULL)
         /\ call' = Call(op, arg, n, lib, NULL, <<>>, FreshMem, r.core,
                         r.kind = "panic")

YamlParseWith(inputs, msgs, texts) ==
    \E input \in inputs :
        \E lib \in LibFor(input, msgs, texts) :
            /\ Return("yaml_parse", input, 0, lib, yaml_parse(input, lib))
            /\ UNCHANGED <<get_LAST_ERROR, set_LAST_ERROR, lastWrite, rodata>>

YamlEncodeWith(inputs, msgs, texts) ==
    \E input \in inputs, block_style \in {0, 1} :
        \E lib \in LibFor(input, msgs, texts) :
            /\ Return("yaml_encode", input, block_style, lib,
                      yaml_encode(input, block_style, lib))
            /\ UNCHANGED <<get_LAST_ERROR, set_LAST_ERROR, lastWrite, rodata>>

\* The caller releases null or a result it still holds.
FreeString ==
    \E ptr \in {NULL} \cup owned :
        /\ live' = free_string(ptr, live)
        /\ owned' = owned \ {ptr}
        /\ call' = Call("free_string", ptr, 0, NoAnswer, NULL, <<>>, FreshMem,
                        <<>>, FALSE)
        /\ UNCHANGED <<get_LAST_ERROR, set_LAST_ERROR, lastWrite, rodata>>

GetLastError ==
    \E buffer \in {NULL, BufAddr}, size \in 0 .. MaxCap :
        LET r == get_last_error(buffer, size, get_LAST_ERROR, FreshMem) IN
        /\ call' = Call("get_last_error", buffer, size, NoAnswer, r.ret, <<>>,
                        r.mem, <<>>, FALSE)
        /\ UNCHANGED <<get_LAST_ERROR, set_LAST_ERROR, live, owned, lastWrite,
                       rodata>>

SetLastErrorWith(inputs) ==
    \E error \in inputs :
        /\ set_LAST_ERROR' = set_last_error(error)
        /\ lastWrite' = error
        /\ call' = Call("set_last_error", error, 0, NoAnswer, NULL, <<>>,
                        FreshMem, <<>>, FALSE)
        /\ UNCHANGED <<get_LAST_ERROR, live, owned, rodata>>

YamlBridgeVersion ==
    LET r == yaml_bridge_version(rodata) IN
    /\ call' = Call("yaml_bridge_version", NullPtr, r.nul, NoAnswer, r.ret,
                    <<>>, FreshMem, <<>>, FALSE)
    /\ UNCHANGED <<get_LAST_ERROR, set_LAST_ERROR, live, owned, lastWrite,
                   rodata>>

\* A yaml_parse that also records a failure in the error slot.
YamlParseLogging ==
    \E input \in FewDocuments :
        \E lib \in LibFor(input, FewMessages, FewTexts) :
            LET r == yaml_parse(input, lib) IN
            /\ Return("yaml_parse", input, 0, lib, r)
            /\ set_LAST_ERROR' = IF r.failed THEN Some(r.text) ELSE set_LAST_ERROR
            /\ UNCHANGED <<get_LAST_ERROR, lastWrite, rodata>>

\* The whole interface, with every message for the error slot and the short
\* list of documents.
YamlParse == YamlParseWith(FewDocuments, FewMessages, FewTexts)

YamlEncode == YamlEncodeWith(FewDocuments, FewMessages, FewTexts)

SetLastError == SetLastErrorWith(ErrorInputs)

Next ==
    \/ YamlParse
    \/ YamlEncode
    \/ FreeString
    \/ GetLastError
    \/ SetLastError
    \/ YamlBridgeVersion

Spec == Init /\ [][Next]_vars

\* The conversions over every document and library answer, with the short
\* list of messages for the error slot.
YamlParseDoc == YamlParseWith(Documents, Messages, OutTexts)

YamlEncodeDoc == YamlEncodeWith(Documents, Messages, OutTexts)

SetLastErrorFew == SetLastErrorWith(FewErrorInputs)

NextConv ==
    \/ YamlParseDoc
    \/ YamlEncodeDoc
    \/ FreeString
    \/ SetLastErrorFew

SpecConv == Init /\ [][NextConv]_vars

\* The conversions of one document over the richer error messages.
YamlParseRich == YamlParseWith({CStrPtr(<<97>>)}, RichMessages, FewTexts)

YamlEncodeRich == YamlEncodeWith({CStrPtr(<<97>>)}, RichMessages, FewTexts)

NextRich ==
    \/ YamlParseRich
    \/ YamlEncodeRich
    \/ FreeString

SpecRich == Init /\ [][NextRich]_vars

---------------------------------------------------------------------------
\* The error slot.

IsGet == call.op = "get_last_error"
IsConversion == call.op \in {"yaml_parse", "yaml_encode"}

\* The message the latest set_last_error was given, when it is text.
WroteText == lastWrite[1] = "cstr" /\ Utf8Ok(lastWrite[2])

\* The buffer holds exactly `m` and a 0 after it.
BufferHolds(mem, m) ==
    /\ \A i \in 0 .. Len(m) - 1 : mem[i] = m[i + 1]
    /\ mem[Len(m)] = 0

\* C1: a read that follows the write of a text m, into a buffer of capacity
\* above len(m), fills the buffer with m and a 0 byte and returns len(m).
C1_WriteThenRead ==
    (IsGet /\ call.arg # NULL /\ WroteText /\ call.n > Len(lastWrite[2]))
        => /\ call.ret = Len(lastWrite[2])
           /\ BufferHolds(call.mem, lastWrite[2])

\* The latest set_last_error was given null or bytes that are not UTF-8.
WroteNothing ==
    \/ lastWrite = NullPtr
    \/ lastWrite[1] = "cstr" /\ ~Utf8Ok(lastWrite[2])

\* C2: once set_last_error was last called with null or with bytes that are
\* not UTF-8, the slot is empty, and a read into a buffer of capacity 1 or
\* more writes the single byte 0 at index 0 and returns 0.
C2_ClearedSlotReadsEmpty ==
    WroteNothing =>
        /\ set_LAST_ERROR = None
        /\ get_LAST_ERROR = None
        /\ (IsGet /\ call.arg # NULL /\ call.n >= 1)
              => /\ call.ret = 0
                 /\ call.mem = [FreshMem EXCEPT ![0] = 0]

C2_Witness ==
    /\ IsGet /\ call.arg # NULL /\ call.n >= 1
    /\ lastWrite = CStrPtr(<<195>>)
    /\ call.ret = 0

\* The message in the slot set_last_error writes, empty when there is none.
StoredMessage == IF set_LAST_ERROR[1] = "Some" THEN set_LAST_ERROR[2] ELSE <<>>

\* C3: a read with a null buffer or capacity 0 returns 0 and writes nothing;
\* any other read returns n = min(L, capacity - 1) for the stored message of
\* length L, writes its first n bytes and a 0 at index n, and writes nothing
\* at an index >= capacity.
C3_ReadBounded ==
    IsGet =>
        IF call.arg = NULL \/ call.n = 0
        THEN call.ret = 0 /\ call.mem = FreshMem
        ELSE LET n == Min(Len(StoredMessage), call.n - 1) IN
             /\ call.ret = n
             /\ BufferHolds(call.mem, SubSeq(StoredMessage, 1, n))
             /\ \A i \in 0 .. MaxCap : i >= call.n => call.mem[i] = Untouched

\* What a read into a buffer of each capacity would give now.
ReadView ==
    [size \in 1 .. MaxCap |->
        get_last_error(BufAddr, size, get_LAST_ERROR, FreshMem)]

\* C7: a step of anything but set_last_error leaves the error slot as it
\* was, so a read gives after it what a read gave before it.
C7_OnlySetWritesSlot ==
    [][call'.op # "set_last_error" =>
          /\ set_LAST_ERROR' = set_LAST_ERROR
          /\ get_LAST_ERROR' = get_LAST_ERROR
          /\ ReadView' = ReadView]_vars

C7_Witness ==
    /\ call.op = "yaml_parse"
    /\ call.lib.from_str[1] = "Err"
    /\ call.core # <<>>
    /\ set_LAST_ERROR = Some(<<195, 169>>)

\* C10: yaml_bridge_version returns the address of the static VERSION, which
\* is no boundary-owned handle, and the text there is followed by a 0 byte
\* inside the static data.
C10_VersionTerminated ==
    call.op = "yaml_bridge_version" =>
        /\ call.ret = VersionAddr
        /\ call.ret \notin live
        /\ call.n \in 1 .. Len(VERSION)

---------------------------------------------------------------------------
\* The conversions.

\* What the conversion core answers in the latest call.
CoreResult ==
    IF call.op = "yaml_parse" THEN parse_yaml_to_json(call.arg[2], call.lib)
    ELSE encode_json_to_yaml(call.arg[2], call.n # 0, call.lib)

\* {"error":"<message>"} with a message that is not empty.
HasErrorShape(s) ==
    /\ Len(s) > Len(ErrPrefix) + Len(ErrSuffix)
    /\ SubSeq(s, 1, Len(ErrPrefix)) = ErrPrefix
    /\ SubSeq(s, Len(s) - Len(ErrSuffix) + 1, Len(s)) = ErrSuffix

\* C4: a conversion given a null pointer returns null, allocates nothing,
\* does not reach the conversion core and leaves the error slot as it was.
C4_NullInput ==
    [][(call'.op \in {"yaml_parse", "yaml_encode"} /\ call'.arg = NullPtr) =>
          /\ call'.ret = NULL
          /\ ~call'.panic
          /\ live' = live
          /\ call'.core = <<>>
          /\ set_LAST_ERROR' = set_LAST_ERROR
          /\ get_LAST_ERROR' = get_LAST_ERROR]_vars

C4_Witness ==
    /\ call.op = "yaml_encode"
    /\ call.arg = NullPtr
    /\ call.ret = NULL
    /\ live # {}
    /\ set_LAST_ERROR # None

\* C5: a conversion given a non-null pointer returns a live string and never
\* null or a panic: the core's text when the core succeeds, and a payload
\* {"error":"<message>"} with a message that is not empty when it fails.
C5_AlwaysAString ==
    (IsConversion /\ call.arg # NullPtr) =>
        /\ call.ret # NULL
        /\ call.ret \in live
        /\ ~call.panic
        /\ Utf8Ok(call.arg[2]) =>
              /\ CoreResult[1] = "Ok" => call.out = CoreResult[2]
              /\ CoreResult[1] = "Err" => HasErrorShape(call.out)
        /\ ~Utf8Ok(call.arg[2]) => HasErrorShape(call.out)

C5_Witness ==
    /\ call.op = "yaml_parse"
    /\ call.arg = CStrPtr(<<97, 97>>)
    /\ call.lib.from_str = Err(<<34>>)
    /\ call.ret \in live
    /\ HasErrorShape(call.out)

\* {"error":"Invalid UTF-8 in input"}
InvalidUtf8Text ==
    <<123, 34, 101, 114, 114, 111, 114, 34, 58, 34,
      73, 110, 118, 97, 108, 105, 100, 32, 85, 84, 70, 45, 56, 32,
      105, 110, 32, 105, 110, 112, 117, 116, 34, 125>>

\* C6: a conversion given bytes that are not UTF-8 returns a live string
\* holding {"error":"Invalid UTF-8 in input"} without reaching the conversion
\* core, and every text that reaches the core is UTF-8.
C6_InvalidUtf8Stopped ==
    /\ (IsConversion /\ call.arg # NullPtr /\ ~Utf8Ok(call.arg[2])) =>
          /\ call.ret \in live
          /\ call.out = InvalidUtf8Text
          /\ call.core = <<>>
    /\ \A i \in DOMAIN call.core : Utf8Ok(call.core[i])

C6_Witness ==
    /\ call.op = "yaml_encode"
    /\ call.arg = CStrPtr(<<97, 255>>)
    /\ call.out = InvalidUtf8Text
    /\ call.core = <<>>

\* C8: the live allocations are the results the caller received and has not
\* released, and no address of the caller or of static data is among them;
\* a conversion of a non-null input adds one address that was not live,
\* free_string of a live handle removes that handle alone, and every other
\* call leaves the live allocations as they were.
C8_LiveIsOwned ==
    [][/\ live' = owned'
       /\ live' \cap {VersionAddr, InputAddr, BufAddr} = {}
       /\ IF call'.op \in {"yaml_parse", "yaml_encode"} /\ call'.arg # NullPtr
          THEN call'.ret \notin live /\ live' = live \cup {call'.ret}
          ELSE IF call'.op = "free_string" /\ call'.arg # NULL
          THEN call'.arg \in live /\ live' = live \ {call'.arg}
          ELSE live' = live]_vars

C8_Witness ==
    /\ call.op = "free_string"
    /\ call.arg # NULL
    /\ Cardinality(live) = 1
    /\ call.arg \notin live

---------------------------------------------------------------------------
\* The error payload read as JSON.

IsHex(b) == b \in (48 .. 57) \cup (65 .. 70) \cup (97 .. 102)
HexVal(b) == IF b <= 57 THEN b - 48 ELSE IF b <= 70 THEN b - 55 ELSE b - 87

\* UTF-8 of a code point below 65536.
Utf8Of(cp) ==
    IF cp < 128 THEN <<cp>>
    ELSE IF cp < 2048 THEN <<192 + (cp \div 64), 128 + (cp % 64)>>
    ELSE <<224 + (cp \div 4096), 128 + ((cp \div 64) % 64), 128 + (cp % 64)>>

\* The character a JSON escape \x stands for: " \ / b f n r t
Unescaped(x) ==
    CASE x = 34 -> 34
      [] x = 92 -> 92
      [] x = 47 -> 47
      [] x = 98 -> 8
      [] x = 102 -> 12
      [] x = 110 -> 10
      [] x = 114 -> 13
      [] x = 116 -> 9

\* A JSON string without its opening quote: <<"ok", the text, what follows
\* the closing quote>>, or <<"bad">> for an unfinished string, a control
\* character or a wrong escape.
RECURSIVE JsonString(_, _)
JsonString(s, acc) ==
    IF s = <<>> THEN <<"bad">>
    ELSE IF s[1] = 34 THEN <<"ok", acc, Drop(s, 1)>>
    ELSE IF s[1] < 32 THEN <<"bad">>
    ELSE IF s[1] # 92 THEN JsonString(Drop(s, 1), Append(acc, s[1]))
    ELSE IF Len(s) < 2 THEN <<"bad">>
    ELSE IF s[2] \in {34, 92, 47, 98, 102, 110, 114, 116}
         THEN JsonString(Drop(s, 2), Append(acc, Unescaped(s[2])))
    ELSE IF /\ s[2] = 117
            /\ Len(s) >= 6
            /\ \A i \in 3 .. 6 : IsHex(s[i])
         THEN JsonString(Drop(s, 6),
                         acc \o Utf8Of((4096 * HexVal(s[3])) + (256 * HexVal(s[4]))
                                       + (16 * HexVal(s[5])) + HexVal(s[6])))
    ELSE <<"bad">>

\* The value of the key "error" of the object {"error":"..."}: <<"ok", text>>,
\* or <<"bad">> when the payload is not that JSON object.
JsonErrorValue(p) ==
    IF Len(p) < Len(ErrPrefix) \/ SubSeq(p, 1, Len(ErrPrefix)) # ErrPrefix
    THEN <<"bad">>
    ELSE LET r == JsonString(Drop(p, Len(ErrPrefix)), <<>>) IN
         IF r[1] = "ok" /\ r[3] = <<125>> THEN <<"ok", r[2]>> ELSE <<"bad">>

\* C9: the payload returned for an error message of the core is the JSON
\* object whose key "error" holds a string that decodes to that message.
C9_PayloadIsJson ==
    (IsConversion /\ call.arg # NullPtr /\ Utf8Ok(call.arg[2])
       /\ CoreResult[1] = "Err")
        => JsonErrorValue(call.out) = <<"ok", CoreResult[2]>>

====
